---- MODULE Spec2Model ----
(***************************************************************************)
(* qr-present: three batch scripts over a folder of images.                *)
(*   rename_and_convert_to_jpeg.py  plan target names, then convert/rename *)
(*   build_excel_from_images.py     scan, resolve timestamps, assign IDs   *)
(*   build_site.py                  spreadsheet + images -> static site    *)
(* Text is modelled as sequences of one-character strings, so that the     *)
(* regular expressions, strftime and zfill are computed and not assumed.   *)
(***************************************************************************)
EXTENDS Integers, Sequences, FiniteSets, TLC

VARIABLES
    pc,         \* position of the running script
    args,       \* parsed command line
    folder,     \* the images folder: file name -> file
    todo,       \* names the directory iterator has not yielded yet
    plans,      \* rename: (src, dst, dt, used_exif)
    converted,  \* rename: counter of converted files
    errors,     \* rename: sources reported with "ERROR converting"
    items,      \* excel: (path, datetime)
    rows,       \* excel: (id_str, bildname, datum) of the DataFrame
    xlsx,       \* entries.xlsx: NoFile or [columns, rows]
    out,        \* site: the output directory, path -> file content
    entries,    \* site: the entries list
    exc,        \* the exception that ended the run, "" if none
    hist        \* out as the previous completed site run left it

vars == <<pc, args, folder, todo, plans, converted, errors, items, rows, xlsx,
          out, entries, exc, hist>>

(***************************************************************************)
(* Bounds of the model.                                                    *)
(***************************************************************************)
MaxImages == 3
MaxRows == 3

(***************************************************************************)
(* Characters, integers and text.                                          *)
(***************************************************************************)
DigitChars == <<"0","1","2","3","4","5","6","7","8","9">>
Digit == {DigitChars[i] : i \in 1..Len(DigitChars)}
DigitVal(c) == (CHOOSE i \in 1..Len(DigitChars) : DigitChars[i] = c) - 1

Max(a, b) == IF a >= b THEN a ELSE b

\* str(n) for n >= 0
RECURSIVE Str(_)
Str(n) == IF n < 10 THEN <<DigitChars[n + 1]>>
          ELSE Str(n \div 10) \o <<DigitChars[(n % 10) + 1]>>

\* s.zfill(w): pad on the left with "0" up to width w, never truncate
RECURSIVE Zfill(_, _)
Zfill(s, w) == IF Len(s) >= w THEN s ELSE Zfill(<<"0">> \o s, w)

\* int(s) on a regex group: the value, or -1 for ValueError
RECURSIVE DigitsValue(_)
DigitsValue(s) == IF Len(s) = 0 THEN 0
                  ELSE 10 * DigitsValue(SubSeq(s, 1, Len(s) - 1)) + DigitVal(s[Len(s)])
PyInt(s) == IF Len(s) > 0 /\ \A i \in 1..Len(s) : s[i] \in Digit
            THEN DigitsValue(s) ELSE -1

(***************************************************************************)
(* datetime: <<year, month, day, hour, minute, second>>.                   *)
(***************************************************************************)
IsLeap(y) == (y % 4 = 0 /\ y % 100 # 0) \/ y % 400 = 0
DaysIn(y, mo) == IF mo = 2 THEN (IF IsLeap(y) THEN 28 + 1 ELSE 28)
                 ELSE IF mo \in {4, 6, 9, 11} THEN 30 ELSE 31

ValidDatetime(y, mo, d, hh, mm, ss) ==
    /\ y \in 1..9999 /\ mo \in 1..12
    /\ d >= 1 /\ d <= DaysIn(y, mo)
    /\ hh \in 0..23 /\ mm \in 0..59 /\ ss \in 0..59

\* Results of the date functions: a datetime, None, or a raised ValueError.
Some(dt) == [tag |-> "ok", dt |-> dt]
None == [tag |-> "none"]
Raised == [tag |-> "raise"]

\* datetime(y, mo, d, hh, mm, ss) raises ValueError on fields out of range
MkDatetime(g) ==
    IF ValidDatetime(g[1], g[2], g[3], g[4], g[5], g[6]) THEN Some(g) ELSE Raised

\* the order of datetime values
DtLess(a, b) ==
    \E k \in 1..6 : a[k] < b[k] /\ \A j \in 1..(k - 1) : a[j] = b[j]
DtLeq(a, b) == a = b \/ DtLess(a, b)

Pad2(n) == Zfill(Str(n), 2)
Pad4(n) == Zfill(Str(n), 4)

\* dt.strftime("%Y-%m-%d_%H%M%S")
StrftimeName(dt) ==
    Pad4(dt[1]) \o <<"-">> \o Pad2(dt[2]) \o <<"-">> \o Pad2(dt[3]) \o <<"_">>
    \o Pad2(dt[4]) \o Pad2(dt[5]) \o Pad2(dt[6])

\* dt.strftime("%Y-%m-%d %H:%M:%S")
StrftimeDatum(dt) ==
    Pad4(dt[1]) \o <<"-">> \o Pad2(dt[2]) \o <<"-">> \o Pad2(dt[3]) \o <<" ">>
    \o Pad2(dt[4]) \o <<":">> \o Pad2(dt[5]) \o <<":">> \o Pad2(dt[6])

\* dt.strftime("%d.%m.%Y")
StrftimeDisplay(dt) ==
    Pad2(dt[3]) \o <<".">> \o Pad2(dt[2]) \o <<".">> \o Pad4(dt[1])

(***************************************************************************)
(* Regular expressions of the three scripts: a pattern is a sequence of    *)
(* character classes, one per character matched, with its six groups as    *)
(* <<first, length>> offsets into the match.                               *)
(***************************************************************************)
Lit(c) == {c}
Rep(tok, n) == [i \in 1..n |-> tok]

MatchAt(s, i, toks) ==
    /\ i + Len(toks) - 1 <= Len(s)
    /\ \A k \in 1..Len(toks) : s[i + k - 1] \in toks[k]

\* pattern.search(s): position of the leftmost match, 0 if none
Search(s, toks) ==
    IF \E i \in 1..Len(s) : MatchAt(s, i, toks)
    THEN CHOOSE i \in 1..Len(s) :
            MatchAt(s, i, toks) /\ \A j \in 1..(i - 1) : ~MatchAt(s, j, toks)
    ELSE 0

\* map(int, m.groups()); -1 where int() raises
GroupInts(s, at, groups) ==
    [k \in 1..Len(groups) |->
        PyInt(SubSeq(s, at + groups[k][1] - 1, at + groups[k][1] + groups[k][2] - 2))]

\* m = pattern.search(s); if m: return datetime(*map(int, m.groups()))
DateFromMatch(s, pat) ==
    LET at == Search(s, pat.toks) IN
    IF at = 0 THEN None
    ELSE LET g == GroupInts(s, at, pat.groups) IN
         IF \E k \in 1..Len(g) : g[k] < 0 THEN Raised ELSE MkDatetime(g)

\* r"(\d{4}):(\d{2}):(\d{2})[ T](\d{2}):(\d{2}):(\d{2})"
DATE_RE_EXIF ==
    [toks |-> Rep(Digit, 4) \o <<Lit(":")>> \o Rep(Digit, 2) \o <<Lit(":")>>
              \o Rep(Digit, 2) \o <<{" ", "T"}>> \o Rep(Digit, 2) \o <<Lit(":")>>
              \o Rep(Digit, 2) \o <<Lit(":")>> \o Rep(Digit, 2),
     groups |-> <<<<1, 4>>, <<6, 2>>, <<9, 2>>, <<12, 2>>, <<15, 2>>, <<18, 2>>>>]

\* r"(\d{4})-(\d{2})-(\d{2})[_\-](\d{2})(\d{2})(\d{2})"
DATE_RE_FILENAME ==
    [toks |-> Rep(Digit, 4) \o <<Lit("-")>> \o Rep(Digit, 2) \o <<Lit("-")>>
              \o Rep(Digit, 2) \o <<{"_", "-"}>> \o Rep(Digit, 6),
     groups |-> <<<<1, 4>>, <<6, 2>>, <<9, 2>>, <<12, 2>>, <<14, 2>>, <<16, 2>>>>]

(***************************************************************************)
(* Files.  A name is [stem, suffix] (Path.stem, Path.suffix).  A file is   *)
(*   exif     None-like <<>> or the values of the tags DateTimeOriginal,   *)
(*            DateTimeDigitized, DateTime (NoTag where the tag is absent)  *)
(*   mdls     output of mdls, birth/mtime: os.stat times as local datetime *)
(*   readable whether PIL can decode the pixel data                        *)
(*   content  whose picture the file holds                                 *)
(***************************************************************************)
NoTag == <<"<absent>">>
NoExif == <<>>
NoBirth == <<>>

IMG_EXTS == {".jpg", ".jpeg", ".png", ".tif", ".tiff", ".webp", ".heic", ".heif"}

Name(stem, suffix) == [stem |-> stem, suffix |-> suffix]

T1 == <<2020, 5, 17, 10, 0, 0>>
T2 == <<2021, 12, 31, 23, 59, 59>>
T3 == <<2024, 2, 29, 8, 30, 0>>

ExifT1 == <<"2","0","2","0",":","0","5",":","1","7"," ","1","0",":","0","0",":","0","0">>
ExifT2 == <<"2","0","2","1",":","1","2",":","3","1","T","2","3",":","5","9",":","5","9">>
ExifBadDate == <<"2","0","2","0",":","1","3",":","4","5"," ","1","0",":","0","0",":","0","0">>
ExifNoDate == <<"n","o"," ","d","a","t","e">>

\* is_file() and suffix.lower() in IMG_EXTS (suffixes of the model are lower case)
IsImage(n) == n.suffix \in IMG_EXTS

\* extract_exif_datetime of rename_and_convert_to_jpeg / build_excel_from_images:
\* the first tag that is present, non-empty and matches decides; an exception
\* (a file PIL cannot open, datetime() out of range) gives None.
RECURSIVE ExifTagScan(_, _, _)
ExifTagScan(exif, k, pat) ==
    IF k > Len(exif) THEN None
    ELSE IF exif[k] = NoTag \/ Len(exif[k]) = 0 THEN ExifTagScan(exif, k + 1, pat)
    ELSE LET r == DateFromMatch(exif[k], pat) IN
         IF r.tag = "none" THEN ExifTagScan(exif, k + 1, pat)
         ELSE IF r.tag = "raise" THEN None
         ELSE r

extract_exif_datetime(f) ==
    IF f.exif = NoExif THEN None ELSE ExifTagScan(f.exif, 1, DATE_RE_EXIF)

\* get_file_mtime
get_file_mtime(f) == f.mtime

(***************************************************************************)
(* rename_and_convert_to_jpeg.py                                           *)
(***************************************************************************)
\* target.with_name(f"{stem}-{i}{ext}")
Candidate(target, i) ==
    IF i = 0 THEN target
    ELSE Name(target.stem \o <<"-">> \o Str(i), target.suffix)

\* unique_target_name: the first of target, target-1, target-2, ... that does
\* not exist in the folder now
unique_target_name(target, fs) ==
    LET free(i) == Candidate(target, i) \notin DOMAIN fs
        i == CHOOSE i \in 0..Cardinality(DOMAIN fs) :
                free(i) /\ \A j \in 0..(i - 1) : ~free(j)
    IN Candidate(target, i)

\* main, lines 103-111: the plan of one image
PlanOf(img, fs) ==
    LET e == extract_exif_datetime(fs[img])
        dt == IF e.tag = "ok" THEN e.dt ELSE get_file_mtime(fs[img])
        dst == unique_target_name(Name(StrftimeName(dt), ".jpeg"), fs)
    IN [src |-> img, dst |-> dst, dt |-> dt, used_exif |-> (e.tag = "ok")]

IsDryRunNever(a) == FALSE

\* main, line 120: without --apply the run ends after printing the plan
IsDryRun(a) == ~a.apply

\* what rgb.save(dst, "JPEG") leaves at dst: the picture of src, re-encoded,
\* without EXIF, modified now
SavedJpeg(f, now) ==
    [exif |-> NoExif, mdls |-> <<>>, birth |-> now, mtime |-> now,
     readable |-> TRUE, content |-> f.content]

Remove(fs, n) == [m \in DOMAIN fs \ {n} |-> fs[m]]
Put(fs, n, f) == [m \in DOMAIN fs \cup {n} |-> IF m = n THEN f ELSE fs[m]]

\* what rgb.save leaves at dst when it raises after opening dst for writing:
\* a truncated file that holds no picture
NoPicture == Name(<<>>, "")
TruncatedJpeg(now) ==
    [exif |-> NoExif, mdls |-> <<>>, birth |-> now, mtime |-> now,
     readable |-> FALSE, content |-> NoPicture]

FailedSaveRemovesSource(fs, p, now, opened) ==
    Remove(IF opened THEN Put(fs, p.dst, TruncatedJpeg(now)) ELSE fs, p.src)

\* main, lines 127-129 and 133-134: rgb.save raised, before or after it
\* opened dst; the except branch prints and the loop goes on, so neither
\* line 130 nor os.remove(src) on line 132 runs
FailedSave(fs, p, now, opened) ==
    IF opened THEN Put(fs, p.dst, TruncatedJpeg(now)) ELSE fs

\* the number of plans the loop of lines 125-134 has been through: each one
\* either counted on line 130 or left in the except branch before that line
Processed(errs, n) ==
    n + Cardinality({k \in 1..Len(errs) : errs[k].stage # "remove"})

NowPool == {T3}

RenameNames ==
    { Name(<<"a">>, ".png"), Name(<<"b">>, ".heic"),
      Name(StrftimeName(T1), ".jpeg"), Name(<<"n","o","t","e","s">>, ".txt") }

RenameFiles ==
    { [exif |-> <<ExifT1, NoTag, NoTag>>, mdls |-> <<>>, birth |-> NoBirth,
       mtime |-> T2, readable |-> TRUE],
      [exif |-> NoExif, mdls |-> <<>>, birth |-> NoBirth,
       mtime |-> T1, readable |-> TRUE],
      [exif |-> <<ExifBadDate, NoTag, ExifT2>>, mdls |-> <<>>, birth |-> NoBirth,
       mtime |-> T2, readable |-> TRUE],
      [exif |-> <<NoTag, ExifT1, NoTag>>, mdls |-> <<>>, birth |-> NoBirth,
       mtime |-> T1, readable |-> FALSE] }

\* every folder of at most MaxImages files; each file holds its own picture
Folders(names, files) ==
    UNION { { [n \in S |-> [exif |-> m[n].exif, mdls |-> m[n].mdls,
                             birth |-> m[n].birth, mtime |-> m[n].mtime,
                             readable |-> m[n].readable, content |-> n]]
              : m \in [S -> files] }
            : S \in {X \in SUBSET names : Cardinality(X) <= MaxImages} }

NoFile == [columns |-> <<>>, rows |-> <<>>, exists |-> FALSE]

Idle ==
    /\ plans = <<>> /\ converted = 0 /\ errors = <<>>
    /\ items = <<>> /\ rows = <<>>
    /\ entries = <<>> /\ exc = "" /\ hist = <<>>

RenameInit ==
    /\ pc = "rn_scan"
    /\ args \in [script : {"rename"}, apply : BOOLEAN]
    /\ folder \in Folders(RenameNames, RenameFiles)
    /\ todo = {n \in DOMAIN folder : IsImage(n)}
    /\ xlsx = NoFile /\ out = <<>>
    /\ Idle

\* main, lines 102-111: one iteration of the planning loop; iterdir yields
\* the images in an order the file system chooses
RenamePlan ==
    /\ pc = "rn_scan"
    /\ \E img \in todo :
         /\ plans' = Append(plans, PlanOf(img, folder))
         /\ todo' = todo \ {img}
    /\ UNCHANGED <<pc, args, folder, converted, errors, items, rows, xlsx, out,
                   entries, exc, hist>>

\* main, lines 113-124: report the plan; stop here unless --apply
RenameReport ==
    /\ pc = "rn_scan" /\ todo = {}
    /\ pc' = IF IsDryRun(args) THEN "done" ELSE "rn_apply"
    /\ converted' = 0
    /\ UNCHANGED <<args, folder, todo, plans, errors, items, rows, xlsx, out,
                   entries, exc, hist>>

\* main, lines 125-132: the next plan converts; the source is removed after
\* the save when the paths differ
RenameConvert ==
    /\ pc = "rn_apply"
    /\ Processed(errors, converted) < Len(plans)
    /\ LET p == plans[Processed(errors, converted) + 1] IN
         /\ p.src \in DOMAIN folder /\ folder[p.src].readable
         /\ \E now \in NowPool :
              LET saved == Put(folder, p.dst, SavedJpeg(folder[p.src], now))
              IN folder' = IF p.src # p.dst THEN Remove(saved, p.src) ELSE saved
         /\ converted' = converted + 1
    /\ UNCHANGED <<pc, args, todo, plans, errors, items, rows, xlsx, out,
                   entries, exc, hist>>

\* main, lines 127-128 and 133-134: Image.open / convert raised; the source
\* is reported
RenameSkip ==
    /\ pc = "rn_apply"
    /\ Processed(errors, converted) < Len(plans)
    /\ LET p == plans[Processed(errors, converted) + 1] IN
         /\ ~(p.src \in DOMAIN folder /\ folder[p.src].readable)
         /\ errors' = Append(errors, [src |-> p.src, stage |-> "open"])
    /\ UNCHANGED <<pc, args, folder, todo, plans, converted, items, rows, xlsx,
                   out, entries, exc, hist>>

\* main, lines 129 and 133-134: rgb.save raised (disk full, no permission);
\* the source is reported
RenameSaveFails ==
    /\ pc = "rn_apply"
    /\ Processed(errors, converted) < Len(plans)
    /\ LET p == plans[Processed(errors, converted) + 1] IN
         /\ p.src \in DOMAIN folder /\ folder[p.src].readable
         /\ \E now \in NowPool, opened \in BOOLEAN :
              folder' = FailedSave(folder, p, now, opened)
         /\ errors' = Append(errors, [src |-> p.src, stage |-> "save"])
    /\ UNCHANGED <<pc, args, todo, plans, converted, items, rows, xlsx, out,
                   entries, exc, hist>>

\* main, lines 129-134: the save succeeded and was counted, then
\* os.remove(src) raised; the source is reported and stays
RenameRemoveFails ==
    /\ pc = "rn_apply"
    /\ Processed(errors, converted) < Len(plans)
    /\ LET p == plans[Processed(errors, converted) + 1] IN
         /\ p.src \in DOMAIN folder /\ folder[p.src].readable
         /\ p.src # p.dst
         /\ \E now \in NowPool :
              folder' = Put(folder, p.dst, SavedJpeg(folder[p.src], now))
         /\ converted' = converted + 1
         /\ errors' = Append(errors, [src |-> p.src, stage |-> "remove"])
    /\ UNCHANGED <<pc, args, todo, plans, items, rows, xlsx, out, entries,
                   exc, hist>>

\* main, line 135
RenameFinish ==
    /\ pc = "rn_apply"
    /\ Processed(errors, converted) = Len(plans)
    /\ pc' = "done"
    /\ UNCHANGED <<args, folder, todo, plans, converted, errors, items, rows,
                   xlsx, out, entries, exc, hist>>

RenameNext ==
    \/ RenamePlan
    \/ RenameReport
    \/ RenameConvert
    \/ RenameSkip
    \/ RenameSaveFails
    \/ RenameRemoveFails
    \/ RenameFinish

SpecRename == RenameInit /\ [][RenameNext]_vars

(***************************************************************************)
(* build_excel_from_images.py                                              *)
(***************************************************************************)
\* datetime_from_filename: DATE_RE_FILENAME.search(p.stem); datetime() is not
\* guarded here, so a stem that matches with fields out of range raises
datetime_from_filename(p) == DateFromMatch(p.stem, DATE_RE_FILENAME)

\* out.split(): the whitespace-separated words of s
RECURSIVE SplitWords(_, _, _)
SplitWords(s, k, word) ==
    IF k > Len(s) THEN (IF Len(word) > 0 THEN <<word>> ELSE <<>>)
    ELSE IF s[k] = " "
         THEN (IF Len(word) > 0 THEN <<word>> ELSE <<>>) \o SplitWords(s, k + 1, <<>>)
         ELSE SplitWords(s, k + 1, Append(word, s[k]))

\* "%Y-%m-%d %H:%M:%S" as strptime reads the two-digit fields mdls prints
STRPTIME_FORMAT ==
    [toks |-> Rep(Digit, 4) \o <<Lit("-")>> \o Rep(Digit, 2) \o <<Lit("-")>>
              \o Rep(Digit, 2) \o <<Lit(" ")>> \o Rep(Digit, 2) \o <<Lit(":")>>
              \o Rep(Digit, 2) \o <<Lit(":")>> \o Rep(Digit, 2),
     groups |-> <<<<1, 4>>, <<6, 2>>, <<9, 2>>, <<12, 2>>, <<15, 2>>, <<18, 2>>>>]

MdlsFailed == <<"<CalledProcessError>">>
MdlsNull == <<"(","n","u","l","l",")">>
MdlsT2 == <<"2","0","2","1","-","1","2","-","3","1"," ","2","3",":","5","9",":","5","9"," ","+","0","0","0","0">>

\* mdls_creation_datetime: None off macOS, on any exception, on "(null)" or
\* on fewer than two words; else strptime of the first two words
mdls_creation_datetime(f, darwin) ==
    IF ~darwin THEN None
    ELSE IF f.mdls = MdlsFailed THEN None
    ELSE IF Len(f.mdls) = 0 \/ f.mdls = MdlsNull THEN None
    ELSE LET parts == SplitWords(f.mdls, 1, <<>>) IN
         IF Len(parts) < 2 THEN None
         ELSE LET dt_str == parts[1] \o <<" ">> \o parts[2]
                  r == IF Len(dt_str) = Len(STRPTIME_FORMAT.toks)
                       THEN DateFromMatch(dt_str, STRPTIME_FORMAT) ELSE Raised
              IN IF r.tag = "ok" THEN r ELSE None

\* fs_birth_or_mtime: st_birthtime when the platform has it and it is not 0
fs_birth_or_mtime(f) == IF f.birth # NoBirth THEN Some(f.birth) ELSE Some(f.mtime)

\* a or b: b is evaluated only when a is None; an exception in a propagates
OrElse(a, b) == IF a.tag = "none" THEN b ELSE a

\* main, line 126
ResolveTimestamp(p, f, darwin) ==
    OrElse(datetime_from_filename(p),
      OrElse(extract_exif_datetime(f),
        OrElse(mdls_creation_datetime(f, darwin), fs_birth_or_mtime(f))))

\* items.sort(key=lambda x: x[1]): stable, ascending by datetime
RECURSIVE InsertByDt(_, _)
InsertByDt(sorted, x) ==
    IF Len(sorted) = 0 THEN <<x>>
    ELSE IF DtLeq(sorted[Len(sorted)].dt, x.dt) THEN Append(sorted, x)
    ELSE Append(InsertByDt(SubSeq(sorted, 1, Len(sorted) - 1), x), sorted[Len(sorted)])

RECURSIVE SortFrom(_, _, _)
SortFrom(s, k, acc) ==
    IF k > Len(s) THEN acc ELSE SortFrom(s, k + 1, InsertByDt(acc, s[k]))

SortByDtKeepsOrder(s) == s

SortByDt(s) == SortFrom(s, 1, <<>>)

\* pad = max(3, len(str(len(items))))
PadWidth(n) == Max(3, Len(Str(n)))

\* id_str = str(i).zfill(pad)
IdStr(i, n) == Zfill(Str(i), PadWidth(n))

NameText(p) == p.stem \o <<p.suffix>>

\* main, lines 136-143: the rows of the sorted items (ID, Bildernamen,
\* Datum/Jahr; Beschreibung and Link are not modelled)
BuildRows(sorted) ==
    [i \in 1..Len(sorted) |->
        [id |-> IdStr(i, Len(sorted)), bildname |-> sorted[i].path,
         datum |-> StrftimeDatum(sorted[i].dt)]]

\* main, line 145: columns of the DataFrame
ExcelColumns ==
    << <<"I","D">>,
       <<"B","i","l","d","e","r","n","a","m","e","n">>,
       <<"D","a","t","u","m","/","J","a","h","r">>,
       <<"B","e","s","c","h","r","e","i","b","u","n","g">>,
       <<"L","i","n","k">> >>

ExcelNames ==
    { Name(<<"I","M","G","_","2","0","2","0","-","0","5","-","1","7","_","1","0","0","0","0","0">>, ".jpg"),
      Name(<<"2","0","2","1","-","1","2","-","3","1","-","2","3","5","9","5","9","_","x">>, ".heic"),
      Name(<<"1","2","3","4","-","5","6","-","7","8","-","9","0","1","2","3","4">>, ".png"),
      Name(<<"u","r","l","a","u","b">>, ".jpg") }

ExcelFiles ==
    { [exif |-> <<ExifT1, NoTag, NoTag>>, mdls |-> MdlsT2, birth |-> T3,
       mtime |-> T3, readable |-> TRUE],
      [exif |-> NoExif, mdls |-> MdlsT2, birth |-> T1,
       mtime |-> T3, readable |-> TRUE],
      [exif |-> <<ExifNoDate, NoTag, NoTag>>, mdls |-> MdlsNull, birth |-> T1,
       mtime |-> T2, readable |-> TRUE],
      [exif |-> <<ExifBadDate, NoTag, ExifT2>>, mdls |-> MdlsFailed, birth |-> NoBirth,
       mtime |-> T1, readable |-> TRUE] }

ExcelInit ==
    /\ pc = "ex_scan"
    /\ args \in [script : {"excel"}, write : BOOLEAN, darwin : BOOLEAN]
    /\ folder \in Folders(ExcelNames, ExcelFiles)
    /\ todo = {n \in DOMAIN folder : IsImage(n)}
    /\ xlsx = NoFile /\ out = <<>>
    /\ Idle

\* main, lines 125-127: one iteration of the scan
ExcelScan ==
    /\ pc = "ex_scan"
    /\ \E p \in todo :
         LET r == ResolveTimestamp(p, folder[p], args.darwin) IN
         /\ r.tag = "ok"
         /\ items' = Append(items, [path |-> p, dt |-> r.dt])
         /\ todo' = todo \ {p}
    /\ UNCHANGED <<pc, args, folder, plans, converted, errors, rows, xlsx, out,
                   entries, exc, hist>>

\* main, line 126: datetime_from_filename raised; nothing catches it
ExcelScanRaise ==
    /\ pc = "ex_scan"
    /\ \E p \in todo : ResolveTimestamp(p, folder[p], args.darwin).tag = "raise"
    /\ pc' = "crashed" /\ exc' = "ValueError"
    /\ UNCHANGED <<args, folder, todo, plans, converted, errors, items, rows,
                   xlsx, out, entries, hist>>

\* main, lines 129-131
ExcelNoImages ==
    /\ pc = "ex_scan" /\ todo = {} /\ items = <<>>
    /\ pc' = "done"
    /\ UNCHANGED <<args, folder, todo, plans, converted, errors, items, rows,
                   xlsx, out, entries, exc, hist>>

\* main, lines 133-145: sort, pad, rows, DataFrame
ExcelBuild ==
    /\ pc = "ex_scan" /\ todo = {} /\ items # <<>>
    /\ items' = SortByDt(items)
    /\ rows' = BuildRows(items')
    /\ pc' = "ex_df"
    /\ UNCHANGED <<args, folder, todo, plans, converted, errors, xlsx, out,
                   entries, exc, hist>>

\* main, lines 147-150
ExcelPreview ==
    /\ pc = "ex_df" /\ ~args.write
    /\ pc' = "done"
    /\ UNCHANGED <<args, folder, todo, plans, converted, errors, items, rows,
                   xlsx, out, entries, exc, hist>>

\* main, lines 152-155
ExcelWrite ==
    /\ pc = "ex_df" /\ args.write
    /\ xlsx' = [columns |-> ExcelColumns, rows |-> rows, exists |-> TRUE]
    /\ pc' = "done"
    /\ UNCHANGED <<args, folder, todo, plans, converted, errors, items, rows,
                   out, entries, exc, hist>>

ExcelNext ==
    \/ ExcelScan
    \/ ExcelScanRaise
    \/ ExcelNoImages
    \/ ExcelBuild
    \/ ExcelPreview
    \/ ExcelWrite

SpecExcel == ExcelInit /\ [][ExcelNext]_vars

(***************************************************************************)
(* build_site.py                                                           *)
(* A sheet is [columns, rows, exists]; a row maps each column to a cell    *)
(* [kind, val]: "nan", "name" (an image file name) or "text" (val.s the    *)
(* text, val.parsed what pd.to_datetime(dayfirst=True) makes of it).       *)
(* Paths of the output directory and hrefs are texts with "/".             *)
(***************************************************************************)
\* r"(\\d{4}):(\\d{2}):(\\d{2})[ T](\\d{2}):(\\d{2}):(\\d{2})": in a raw string
\* \\d is an escaped backslash followed by the letter d
DATE_RE ==
    LET bs(n) == <<Lit("\\")>> \o Rep(Lit("d"), n) IN
    [toks |-> bs(4) \o <<Lit(":")>> \o bs(2) \o <<Lit(":")>> \o bs(2)
              \o <<{" ", "T"}>> \o bs(2) \o <<Lit(":")>> \o bs(2) \o <<Lit(":")>> \o bs(2),
     groups |-> <<<<1, 5>>, <<7, 3>>, <<11, 3>>, <<15, 3>>, <<19, 3>>, <<23, 3>>>>]

\* exif_datetime: as extract_exif_datetime, with the DATE_RE of build_site
exif_datetime(f) ==
    IF f.exif = NoExif THEN None ELSE ExifTagScan(f.exif, 1, DATE_RE)

UpperChars == <<"A","B","C","D","E","F","G","H","I","J","K","L","M","N","O","P","Q","R","S","T","U","V","W","X","Y","Z">>
LowerChars == <<"a","b","c","d","e","f","g","h","i","j","k","l","m","n","o","p","q","r","s","t","u","v","w","x","y","z">>
Lower(c) == IF \E i \in 1..Len(UpperChars) : UpperChars[i] = c
            THEN LowerChars[CHOOSE i \in 1..Len(UpperChars) : UpperChars[i] = c]
            ELSE c

\* s.replace(ch, "") for the one-character ch in drop, and for "\\\\"
RECURSIVE RemoveChars(_, _, _)
RemoveChars(s, k, drop) ==
    IF k > Len(s) THEN <<>>
    ELSE IF s[k] \in drop THEN RemoveChars(s, k + 1, drop)
    ELSE IF s[k] = "\\" /\ k < Len(s) /\ s[k + 1] = "\\" THEN RemoveChars(s, k + 2, drop)
    ELSE <<s[k]>> \o RemoveChars(s, k + 1, drop)

\* normalize_colname: strip, lower case, then drop " ", tab, "/", "_", "-"
normalize_colname(name) ==
    RemoveChars([i \in 1..Len(name) |-> Lower(name[i])], 1, {" ", "\t", "/", "_", "-"})

NoCol == <<>>

\* {normalize_colname(c): c for c in df.columns}.get(key): the last such column
ColLookup(columns, key) ==
    LET hits == {k \in 1..Len(columns) : normalize_colname(columns[k]) = key} IN
    IF hits = {} THEN NoCol
    ELSE columns[CHOOSE k \in hits : \A j \in hits : j <= k]

\* main, lines 251-253
col_img(columns) == ColLookup(columns, <<"b","i","l","d","n","a","m","e">>)

\* find_date_column: "datumjahr" before "datum"
find_date_column(columns) ==
    IF ColLookup(columns, <<"d","a","t","u","m","j","a","h","r">>) # NoCol THEN ColLookup(columns, <<"d","a","t","u","m","j","a","h","r">>)
    ELSE ColLookup(columns, <<"d","a","t","u","m">>)

NaN == [kind |-> "nan", val |-> <<>>]
NameCell(n) == [kind |-> "name", val |-> n]
TextCell(s, parsed) == [kind |-> "text", val |-> [s |-> s, parsed |-> parsed]]

\* r"\\d{4}" of safe_date_from_excel: a backslash and four letters d
YEAR_RE == <<Lit("\\")>> \o Rep(Lit("d"), 4)

\* safe_date_from_excel
safe_date_from_excel(cell) ==
    IF cell.kind # "text" THEN None
    ELSE IF Len(cell.val.s) = Len(YEAR_RE) /\ MatchAt(cell.val.s, 1, YEAR_RE)
         THEN Raised
         ELSE cell.val.parsed

\* str(row[col_img]).strip()
img_name(cell) == IF cell.kind = "name" THEN cell.val ELSE Name(<<"n","a","n">>, "")

\* num = str(n).zfill(3)
Num(n) == Zfill(Str(n), 3)

\* "href": f"e/{num}.html"
Href(num) == <<"e","/">> \o num \o <<".","h","t","m","l">>

\* main, lines 274-285: the date displayed for a row
DisplayDate(columns, row, f) ==
    LET c == find_date_column(columns)
        fromExcel == IF c # NoCol THEN safe_date_from_excel(row[c]) ELSE None
        fromExif == IF fromExcel.tag = "ok" THEN fromExcel ELSE exif_datetime(f)
        dt == IF fromExif.tag = "ok" THEN fromExif.dt ELSE f.mtime
    IN StrftimeDisplay(dt)

\* main, lines 287-288
Entry(n, img, date) ==
    [num |-> Num(n), image |-> img, thumb |-> <<"a","s","s","e","t","s","/","t","h","u","m","b","s","/">> \o NameText(img),
     href |-> Href(Num(n)), date |-> date]

NoLink == <<>>

\* main, lines 293-296: ENTRY_TEMPLATE.format of entry i
EntryPage(es, i) ==
    [kind |-> "entry",
     val |-> [num |-> es[i].num, image |-> es[i].image, date |-> es[i].date,
              prev_link |-> IF i > 1 THEN es[i - 1].href ELSE NoLink,
              next_link |-> IF i < Len(es) THEN es[i + 1].href ELSE NoLink]]

\* main, lines 300-305: INDEX_TEMPLATE.format of the cards
IndexPage(es) ==
    [kind |-> "index",
     val |-> [i \in 1..Len(es) |->
                [href |-> es[i].href, thumb_src |-> es[i].thumb, num |-> es[i].num,
                 date |-> es[i].date]]]

\* write every file of the function files into the directory o
WriteAll(o, files) ==
    [q \in DOMAIN o \cup DOMAIN files |-> IF q \in DOMAIN files THEN files[q] ELSE o[q]]

CleanOutDirKeeps(o) == o

\* shutil.rmtree(out_dir) and the mkdirs of lines 245-247: no file is left
CleanOutDir(o) == [q \in {} |-> o[q]]

AfterMissingImageGoesOn(o) == [pc |-> "st_pages", exc |-> ""]

\* main, line 263: the image of a row is missing
AfterMissingImage(o) ==
    [pc |-> "crashed", exc |-> "FileNotFoundError: Bild nicht gefunden"]

\* main, lines 308-310
QrRequested(a) == a.make_qr \/ a.qrs_pdf \/ a.labels
NoUrl == <<>>

QrUrlWithoutFolder(base_url, e) == base_url \o <<"/">> \o e.num \o <<".","h","t","m","l">>

\* main, line 313: url = f"{args.base_url}/{m['href']}"
QrUrl(base_url, e) == base_url \o <<"/">> \o e.href

QrPath(num) == <<"a","s","s","e","t","s","/","q","r","c","o","d","e","s","/">> \o num \o <<".","p","n","g">>

\* make_qr_png of every entry, lines 312-314
QrFiles(base_url, es) ==
    [q \in {QrPath(es[i].num) : i \in 1..Len(es)} |->
        [kind |-> "qr",
         val |-> QrUrl(base_url, es[CHOOSE i \in 1..Len(es) : QrPath(es[i].num) = q])]]

\* make_qr_overview_pdf / make_labels_pdf: the entries whose QR PNG exists
PdfFile(o, es) ==
    [kind |-> "pdf",
     val |-> [i \in 1..Len(es) |-> IF QrPath(es[i].num) \in DOMAIN o THEN es[i].num ELSE <<>>]]

BaseUrl == <<"h","t","t","p","s",":","/","/","x",".","d","e">>

Stale == [kind |-> "stale", val |-> <<>>]
StaleOut ==
    [q \in {<<"i","n","d","e","x",".","h","t","m","l">>, <<"e","/","0","0","1",".","h","t","m","l">>, <<"e","/","0","0","9",".","h","t","m","l">>, <<"a","s","s","e","t","s","/","q","r","c","o","d","e","s","/","0","0","9",".","p","n","g">>,
            <<"q","r","c","o","d","e","s",".","p","d","f">>} |-> Stale]

ImgA == Name(<<"a">>, ".jpg")
ImgB == Name(<<"b">>, ".jpg")
ImgC == Name(<<"c">>, ".jpg")

SiteFolder ==
    [n \in {ImgA, ImgB} |->
        IF n = ImgA
        THEN [exif |-> <<ExifT1, NoTag, NoTag>>, mdls |-> <<>>, birth |-> NoBirth,
              mtime |-> T2, readable |-> TRUE, content |-> n]
        ELSE [exif |-> NoExif, mdls |-> <<>>, birth |-> NoBirth,
              mtime |-> T1, readable |-> TRUE, content |-> n]]

CellDate == TextCell(<<"2","9",".","0","2",".","2","0","2","4">>, Some(<<2024, 2, 29, 0, 0, 0>>))
CellJunk == TextCell(<<"u","n","b","e","k","a","n","n","t">>, None)

\* rows as a person fills them in: image, cell under Datum/Jahr, cell under Datum
SheetRowPool ==
    { [img |-> ImgA, dj |-> NaN, d |-> NaN],
      [img |-> ImgA, dj |-> CellJunk, d |-> CellDate],
      [img |-> ImgB, dj |-> NaN, d |-> NaN],
      [img |-> ImgC, dj |-> NaN, d |-> NaN] }

HeaderPool ==
    { << <<"B","i","l","d","n","a","m","e">>, <<"B","e","s","c","h","r","e","i","b","u","n","g">>, <<"D","a","t","u","m">> >>,
      << <<" ","B","i","l","d","-","N","a","m","e"," ">>, <<"T","e","x","t">>, <<"D","a","t","u","m">>, <<"D","a","t","u","m","/","J","a","h","r">> >>,
      << <<"B","i","l","d","n","a","m","e">>, <<"T","i","t","e","l">> >> }

Range(f) == {f[k] : k \in DOMAIN f}

SheetRow(columns, r) ==
    [c \in Range(columns) |->
        IF normalize_colname(c) = <<"b","i","l","d","n","a","m","e">> THEN NameCell(r.img)
        ELSE IF c = <<"D","a","t","u","m","/","J","a","h","r">> THEN r.dj
        ELSE IF c = <<"D","a","t","u","m">> THEN r.d
        ELSE NaN]

SeqsUpTo(S, n) == UNION {[1..k -> S] : k \in 0..n}

HandMadeSheets ==
    { [columns |-> h, rows |-> [k \in 1..Len(rs) |-> SheetRow(h, rs[k])], exists |-> TRUE]
      : h \in HeaderPool, rs \in SeqsUpTo(SheetRowPool, MaxRows) }

\* the sheet build_excel_from_images --write leaves for the folder fs, as
\* pd.read_excel returns it: the empty Beschreibung and Link cells read as NaN
RECURSIVE ScanItems(_, _, _)
ScanItems(names, fs, darwin) ==
    IF names = {} THEN <<>>
    ELSE LET p == CHOOSE x \in names : TRUE IN
         <<[path |-> p, dt |-> ResolveTimestamp(p, fs[p], darwin).dt]>>
         \o ScanItems(names \ {p}, fs, darwin)

ExcelWrittenSheet(fs) ==
    LET rs == BuildRows(SortByDt(ScanItems(DOMAIN fs, fs, FALSE))) IN
    [columns |-> ExcelColumns,
     rows |-> [k \in 1..Len(rs) |->
                 [c \in Range(ExcelColumns) |->
                    IF c = ExcelColumns[1] THEN TextCell(rs[k].id, None)
                    ELSE IF c = ExcelColumns[2] THEN NameCell(rs[k].bildname)
                    ELSE IF c = ExcelColumns[3]
                         THEN TextCell(rs[k].datum, ResolveTimestamp(
                                  rs[k].bildname, fs[rs[k].bildname], FALSE))
                    ELSE NaN]],
     exists |-> TRUE]

SiteArgs ==
    { [script |-> "site", base_url |-> u, make_qr |-> q[1], qrs_pdf |-> q[2],
       labels |-> q[3], images_dir |-> d]
      : u \in {NoUrl, BaseUrl},
        q \in {<<FALSE, FALSE, FALSE>>, <<TRUE, FALSE, FALSE>>,
               <<FALSE, TRUE, FALSE>>, <<FALSE, FALSE, TRUE>>},
        d \in BOOLEAN }

SiteInit ==
    /\ pc = "st_start"
    /\ args \in SiteArgs
    /\ folder = SiteFolder
    /\ todo = {}
    /\ xlsx \in HandMadeSheets \cup {ExcelWrittenSheet(SiteFolder), NoFile}
    /\ out = StaleOut
    /\ Idle

\* main, lines 241-242
SiteMissingInput ==
    /\ pc = "st_start"
    /\ ~xlsx.exists \/ ~args.images_dir
    /\ pc' = "crashed"
    /\ exc' = IF ~xlsx.exists THEN "FileNotFoundError: Excel nicht gefunden"
              ELSE "FileNotFoundError: Bilder-Ordner nicht gefunden"
    /\ UNCHANGED <<args, folder, todo, plans, converted, errors, items, rows,
                   xlsx, out, entries, hist>>

\* main, lines 244-247
SitePrepare ==
    /\ pc = "st_start"
    /\ xlsx.exists /\ args.images_dir
    /\ out' = CleanOutDir(out)
    /\ pc' = "st_read"
    /\ UNCHANGED <<args, folder, todo, plans, converted, errors, items, rows,
                   xlsx, entries, exc, hist>>

\* main, line 252
SiteNoBildname ==
    /\ pc = "st_read"
    /\ col_img(xlsx.columns) = NoCol
    /\ pc' = "crashed"
    /\ exc' = "ValueError: Excel muss die Spalte 'Bildname' enthalten."
    /\ UNCHANGED <<args, folder, todo, plans, converted, errors, items, rows,
                   xlsx, out, entries, hist>>

\* main, lines 249-258
SiteColumns ==
    /\ pc = "st_read"
    /\ col_img(xlsx.columns) # NoCol
    /\ entries' = <<>>
    /\ pc' = "st_rows"
    /\ UNCHANGED <<args, folder, todo, plans, converted, errors, items, rows,
                   xlsx, out, exc, hist>>

NextRow == xlsx.rows[Len(entries) + 1]
NextImage == img_name(NextRow[col_img(xlsx.columns)])

\* main, lines 259-288: one row whose image exists
SiteRow ==
    /\ pc = "st_rows"
    /\ Len(entries) < Len(xlsx.rows)
    /\ NextImage \in DOMAIN folder
    /\ out' = WriteAll(out,
                [q \in {<<"a","s","s","e","t","s","/","i","m","a","g","e","s","/">> \o NameText(NextImage),
                        <<"a","s","s","e","t","s","/","t","h","u","m","b","s","/">> \o NameText(NextImage)} |->
                    [kind |-> "image", val |-> folder[NextImage].content]])
    /\ entries' = Append(entries,
                    Entry(Len(entries) + 1, NextImage,
                          DisplayDate(xlsx.columns, NextRow, folder[NextImage])))
    /\ UNCHANGED <<pc, args, folder, todo, plans, converted, errors, items, rows,
                   xlsx, exc, hist>>

\* main, line 263
SiteRowMissing ==
    /\ pc = "st_rows"
    /\ Len(entries) < Len(xlsx.rows)
    /\ NextImage \notin DOMAIN folder
    /\ pc' = AfterMissingImage(out).pc
    /\ exc' = AfterMissingImage(out).exc
    /\ UNCHANGED <<args, folder, todo, plans, converted, errors, items, rows,
                   xlsx, out, entries, hist>>

\* main, lines 290-297: every detail page
SitePages ==
    /\ pc = "st_rows"
    /\ Len(entries) = Len(xlsx.rows)
    /\ out' = WriteAll(out,
                [q \in {entries[i].href : i \in 1..Len(entries)} |->
                    EntryPage(entries, CHOOSE i \in 1..Len(entries) : entries[i].href = q)])
    /\ pc' = "st_pages"
    /\ UNCHANGED <<args, folder, todo, plans, converted, errors, items, rows,
                   xlsx, entries, exc, hist>>

\* main, lines 299-305
SiteIndex ==
    /\ pc = "st_pages"
    /\ out' = WriteAll(out, [q \in {<<"i","n","d","e","x",".","h","t","m","l">>} |-> IndexPage(entries)])
    /\ pc' = "st_qr"
    /\ UNCHANGED <<args, folder, todo, plans, converted, errors, items, rows,
                   xlsx, entries, exc, hist>>

\* main, lines 308 and 324: no QR output asked for
SiteNoQr ==
    /\ pc = "st_qr"
    /\ ~QrRequested(args)
    /\ pc' = "done"
    /\ UNCHANGED <<args, folder, todo, plans, converted, errors, items, rows,
                   xlsx, out, entries, exc, hist>>

\* main, lines 309-310
SiteQrNoBaseUrl ==
    /\ pc = "st_qr"
    /\ QrRequested(args) /\ args.base_url = NoUrl
    /\ pc' = "crashed"
    /\ exc' = "SystemExit: --base-url ist erforderlich, um QR-Codes zu erzeugen."
    /\ UNCHANGED <<args, folder, todo, plans, converted, errors, items, rows,
                   xlsx, out, entries, hist>>

\* main, lines 311-324
SiteQr ==
    /\ pc = "st_qr"
    /\ QrRequested(args) /\ args.base_url # NoUrl
    /\ LET withQr == WriteAll(out, QrFiles(args.base_url, entries))
           withPdf == IF args.qrs_pdf
                      THEN WriteAll(withQr, [q \in {<<"q","r","c","o","d","e","s",".","p","d","f">>} |-> PdfFile(withQr, entries)])
                      ELSE withQr
       IN out' = IF args.labels
                 THEN WriteAll(withPdf, [q \in {<<"q","r","c","o","d","e","s","_","l","a","b","e","l","s",".","p","d","f">>} |->
                                            PdfFile(withPdf, entries)])
                 ELSE withPdf
    /\ pc' = "done"
    /\ UNCHANGED <<args, folder, todo, plans, converted, errors, items, rows,
                   xlsx, entries, exc, hist>>

\* the same command is run once more on the same inputs
SiteRunAgain ==
    /\ pc = "done" /\ hist = <<>>
    /\ hist' = <<out>>
    /\ entries' = <<>>
    /\ pc' = "st_start"
    /\ UNCHANGED <<args, folder, todo, plans, converted, errors, items, rows,
                   xlsx, out, exc>>

SiteNext ==
    \/ SiteMissingInput
    \/ SitePrepare
    \/ SiteNoBildname
    \/ SiteColumns
    \/ SiteRow
    \/ SiteRowMissing
    \/ SitePages
    \/ SiteIndex
    \/ SiteNoQr
    \/ SiteQrNoBaseUrl
    \/ SiteQr
    \/ SiteRunAgain

SpecSite == SiteInit /\ [][SiteNext]_vars

(***************************************************************************)
(* Claims                                                                  *)
(***************************************************************************)
Images == {n \in DOMAIN folder : IsImage(n)}
PlanIndex == 1..Len(plans)
Reported(src) == \E k \in 1..Len(errors) : errors[k].src = src

\* C1: with --apply no file is overwritten: the planned targets are pairwise
\* different and different from every file that was in the folder before the
\* run, and after the run the picture of every converted source is held by
\* exactly one file.
C1_NeverOverwrites ==
    (args.script = "rename" /\ args.apply /\ pc = "done") =>
        /\ \A i, j \in PlanIndex : i # j => plans[i].dst # plans[j].dst
        /\ \A i, j \in PlanIndex : plans[i].dst # plans[j].src
        /\ \A i \in PlanIndex :
             ~Reported(plans[i].src) =>
                Cardinality({n \in DOMAIN folder :
                                folder[n].content = plans[i].src}) = 1

\* C2: without --apply the run only plans: no step of it changes the set of
\* files in the folder or the content of any of them.
C2_DryRunChangesNothing ==
    [][(args.script = "rename" /\ ~args.apply) => folder' = folder]_vars

\* C2 witness: a dry run that planned two or more images has ended.
C2_Witness ==
    /\ args.script = "rename" /\ ~args.apply /\ pc = "done"
    /\ Len(plans) >= 2

\* The first source, in the order filename, EXIF, mdls, birthtime, mtime,
\* that yields a timestamp for the image p, written source by source.
ExpectedTimestamp(p, f, darwin) ==
    LET fromName == datetime_from_filename(p)
        fromExif == extract_exif_datetime(f)
        fromMdls == mdls_creation_datetime(f, darwin)
    IN IF fromName.tag = "ok" THEN fromName.dt
       ELSE IF fromExif.tag = "ok" THEN fromExif.dt
       ELSE IF fromMdls.tag = "ok" THEN fromMdls.dt
       ELSE IF f.birth # NoBirth THEN f.birth
       ELSE f.mtime

\* C3: every image ends up with exactly one timestamp, taken from the first
\* of filename pattern, EXIF, mdls, birthtime, mtime that yields one: once
\* the scan loop is over, however it ended, each image of the folder has one
\* item, and every item carries the timestamp of the first yielding source.
C3_FallbackOrder ==
    /\ \A k \in 1..Len(items) :
          items[k].dt = ExpectedTimestamp(items[k].path, folder[items[k].path],
                                          args.darwin)
    /\ (args.script = "excel" /\ pc \in {"ex_df", "done", "crashed"}) =>
          \A p \in Images :
             Cardinality({k \in 1..Len(items) : items[k].path = p}) = 1

\* number of decimal digits of n, by magnitude
NumDigits(n) == CHOOSE k \in 1..8 : n < 10 ^ k /\ (k = 1 \/ n >= 10 ^ (k - 1))

CountSamples == {1, 9, 10, 99, 100, 999, 1000, 1001, 9999, 10000, 12345}

\* C4: when the rows are built for n images, row i has the ID i written in
\* decimal, zero-padded to max(3, digits of n) characters, so the IDs are
\* 1..n, each once; every image has one row; and the rows are in ascending
\* timestamp order.  The width and the value of the first and last ID are
\* also checked for image counts up to 12345.
C4_IdsUniquePaddedMonotonic ==
    /\ (args.script = "excel" /\ pc \in {"ex_df", "done"} /\ Len(items) > 0) =>
        LET n == Len(rows) IN
        /\ n = Cardinality(Images)
        /\ {rows[i].bildname : i \in 1..n} = Images
        /\ \A i \in 1..n :
              /\ PyInt(rows[i].id) = i
              /\ Len(rows[i].id) = Max(3, NumDigits(n))
              /\ rows[i].bildname = items[i].path
              /\ rows[i].datum = StrftimeDatum(items[i].dt)
        /\ \A i, j \in 1..n : i < j => DtLeq(items[i].dt, items[j].dt)
    /\ \A n \in CountSamples : \A i \in {1, n} :
          /\ PyInt(IdStr(i, n)) = i
          /\ Len(IdStr(i, n)) = Max(3, NumDigits(n))

\* C4 witness: three rows were built and the scan had met a later image
\* before an earlier one.
C4_Witness ==
    /\ args.script = "excel" /\ pc = "done" /\ Len(rows) = 3
    /\ DtLess(items[1].dt, items[3].dt)

\* the rows of the sheet, with the image each names
RowIndex == 1..Len(xlsx.rows)
HasImageColumn == xlsx.exists /\ col_img(xlsx.columns) # NoCol
RowImage(k) == img_name(xlsx.rows[k][col_img(xlsx.columns)])
MissingRows == {k \in RowIndex : ~args.images_dir \/ RowImage(k) \notin DOMAIN folder}
OutOfKind(kinds) == {q \in DOMAIN out : out[q].kind \in kinds}
PageText(k) == <<"e","/">> \o Zfill(Str(k), 3) \o <<".","h","t","m","l">>

\* C5: build_site accepts the sheet build_excel_from_images writes: it does
\* not reject it for a missing image-filename column, and a finished run has
\* rendered one detail page per row.
C5_ExcelSheetConsumable ==
    (args.script = "site" /\ xlsx.exists /\ xlsx.columns = ExcelColumns) =>
        /\ exc # "ValueError: Excel muss die Spalte 'Bildname' enthalten."
        /\ pc = "done" => OutOfKind({"entry"}) = {PageText(k) : k \in RowIndex}

DocumentedDate(columns, row, f) ==
    LET c == find_date_column(columns)
        fromExcel == IF c # NoCol THEN safe_date_from_excel(row[c]) ELSE None
        fromExif == extract_exif_datetime(f)
    IN IF fromExcel.tag = "ok" THEN fromExcel.dt
       ELSE IF fromExif.tag = "ok" THEN fromExif.dt
       ELSE f.mtime

\* C7: every entry displays the date of the first available source in the
\* order Excel Datum/Jahr, Excel Datum, EXIF capture timestamp, file mtime.
C7_DateSourcePriority ==
    args.script = "site" =>
        \A k \in 1..Len(entries) :
            entries[k].date =
                StrftimeDisplay(DocumentedDate(xlsx.columns, xlsx.rows[k],
                                               folder[entries[k].image]))

\* a relative reference resolved against the location of the page holding it
RECURSIVE SplitPath(_, _, _)
SplitPath(s, k, seg) ==
    IF k > Len(s) THEN <<seg>>
    ELSE IF s[k] = "/" THEN <<seg>> \o SplitPath(s, k + 1, <<>>)
    ELSE SplitPath(s, k + 1, Append(seg, s[k]))
RECURSIVE JoinPath(_)
JoinPath(segs) ==
    IF Len(segs) = 0 THEN <<>>
    ELSE IF Len(segs) = 1 THEN segs[1]
    ELSE segs[1] \o <<"/">> \o JoinPath(Tail(segs))
RECURSIVE DotDot(_, _)
DotDot(segs, acc) ==
    IF Len(segs) = 0 THEN acc
    ELSE IF segs[1] = <<".", ".">> /\ Len(acc) > 0
         THEN DotDot(Tail(segs), SubSeq(acc, 1, Len(acc) - 1))
         ELSE DotDot(Tail(segs), Append(acc, segs[1]))
Resolve(page, ref) ==
    LET dir == SubSeq(SplitPath(page, 1, <<>>), 1, Len(SplitPath(page, 1, <<>>)) - 1)
    IN JoinPath(DotDot(dir \o SplitPath(ref, 1, <<>>), <<>>))

\* C8: once the detail pages are written, the page of row i links to its
\* neighbours: its previous link, resolved against the page's own location,
\* is the page of row i-1 and its next link the page of row i+1; the first
\* page has no previous link and the last no next link.
C8_NeighbourLinks ==
    (args.script = "site" /\ pc \in {"st_pages", "st_qr", "done"}) =>
        \A i \in 1..Len(entries) :
            LET page == out[PageText(i)].val IN
            /\ IF i = 1 THEN page.prev_link = NoLink
               ELSE /\ page.prev_link # NoLink
                    /\ Resolve(PageText(i), page.prev_link) = PageText(i - 1)
            /\ IF i = Len(entries) THEN page.next_link = NoLink
               ELSE /\ page.next_link # NoLink
                    /\ Resolve(PageText(i), page.next_link) = PageText(i + 1)

\* C9: the output of a finished run depends on the sheet, the images and
\* the arguments only: nothing the output folder held before the run is left
\* in it, its detail pages are those of the present rows, and the same
\* command run again on the previous output gives the identical files.
C9_OutputIsPureFunction ==
    (args.script = "site" /\ pc = "done") =>
        /\ \A q \in DOMAIN out : out[q] # Stale
        /\ OutOfKind({"entry"}) = {PageText(k) : k \in RowIndex}
        /\ hist # <<>> => out = hist[1]

\* C9 witness: a second run over the output of the first has finished, with
\* two or more rows and QR output.
C9_Witness ==
    /\ args.script = "site" /\ pc = "done" /\ hist # <<>>
    /\ Len(entries) >= 2 /\ args.qrs_pdf

QrText(k) == <<"a","s","s","e","t","s","/","q","r","c","o","d","e","s","/">> \o Zfill(Str(k), 3) \o <<".","p","n","g">>

\* C10: (a) a run asked for QR output (--make_qr, --qrs_pdf or --labels)
\* without --base-url never finishes, writes no QR PNG and no QR PDF, and once
\* the index is written its end is the SystemExit; (b) a finished run asked
\* for QR output with --base-url has written one QR PNG per entry,
\* assets/qrcodes/NUM.png, and no other, each encoding base-url/e/NUM.html,
\* the address of that entry's detail page.
C10_BaseUrlRequiredForQr ==
    (args.script = "site" /\ (args.make_qr \/ args.qrs_pdf \/ args.labels)) =>
        /\ args.base_url = NoUrl =>
              /\ pc # "done"
              /\ OutOfKind({"qr", "pdf"}) = {}
              /\ (pc = "crashed" /\ OutOfKind({"index"}) # {}) =>
                    exc = "SystemExit: --base-url ist erforderlich, um QR-Codes zu erzeugen."
        /\ (args.base_url # NoUrl /\ pc = "done") =>
              /\ OutOfKind({"qr"}) = {QrText(k) : k \in RowIndex}
              /\ \A k \in RowIndex :
                    /\ out[QrText(k)].val = args.base_url \o <<"/">> \o PageText(k)
                    /\ PageText(k) \in OutOfKind({"entry"})
                    /\ out[PageText(k)].val.num = Zfill(Str(k), 3)

\* C10 witness: a finished run with --make_qr and --base-url over two or
\* more rows.
C10_Witness ==
    /\ args.script = "site" /\ pc = "done"
    /\ args.make_qr /\ args.base_url # NoUrl
    /\ Len(entries) >= 2


\* the files a step removes, and the complete JPEGs it writes
Gone == DOMAIN folder \ DOMAIN folder'
Wrote ==
    {d \in DOMAIN folder' :
        /\ d \notin DOMAIN folder \/ folder'[d] # folder[d]
        /\ folder'[d].readable}

\* C11: with --apply a failing conversion is caught and skipped.  No step
\* that reports an error removes a file, and a reported source stays in the
\* folder with its picture; the count grows by exactly the number of JPEGs a
\* step writes completely; a step removes a source only when it wrote that
\* source's picture to a different path in the same step; and when the run
\* has ended every planned source was either reported or converted and
\* removed, so no plan after a failure is left out.
C11_FailureIsSkipped ==
    /\ []((args.script = "rename" /\ args.apply) =>
            /\ \A k \in 1..Len(errors) :
                 /\ errors[k].src \in DOMAIN folder
                 /\ folder[errors[k].src].content = errors[k].src
            /\ pc = "done" =>
                 /\ Processed(errors, converted) = Len(plans)
                 /\ \A i \in PlanIndex :
                      Reported(plans[i].src) \/ plans[i].src \notin DOMAIN folder)
    /\ [][(args.script = "rename" /\ pc = "rn_apply") =>
            /\ errors' # errors => Gone = {}
            /\ converted' - converted = Cardinality(Wrote)
            /\ \A n \in Gone :
                 \E d \in Wrote : d # n /\ folder'[d].content = folder[n].content]_vars

\* C11 witness: an ended --apply run in which the first plan failed before
\* its JPEG was written, its source is still there, and the last plan was
\* converted and its source removed.
C11_Witness ==
    /\ args.script = "rename" /\ args.apply /\ pc = "done"
    /\ Len(plans) >= 2
    /\ \E k \in 1..Len(errors) :
         /\ errors[k].src = plans[1].src
         /\ errors[k].stage # "remove"
    /\ plans[1].src \in DOMAIN folder
    /\ ~Reported(plans[Len(plans)].src)
    /\ plans[Len(plans)].src \notin DOMAIN folder
    /\ converted = Len(plans) - 1

\* a plan whose source already carries the canonical name of its own
\* resolved timestamp
IsCanonical(p) == p.src = Name(StrftimeName(p.dt), ".jpeg")

\* C12: --apply on a canonical folder is idempotent: when every image the run
\* planned is already named YYYY-MM-DD_HHMMSS.jpeg after its own resolved
\* timestamp, the ended run has left the set of file names as it was, that
\* is, every planned source is still there and no other image has appeared.
C12_IdempotentOnCanonical ==
    (/\ args.script = "rename" /\ args.apply /\ pc = "done"
     /\ \A i \in PlanIndex : IsCanonical(plans[i])) =>
        Images = {plans[i].src : i \in PlanIndex}

====
